---- MODULE Spec2Model ----
(***************************************************************************)
(* The integer tensor operation contract of burn-tensor                    *)
(* (crates/burn-tensor/src/tensor/ops/int_tensor.rs, trait IntTensorOps).  *)
(*                                                                         *)
(* A tensor is a record [dims, data, device]: dims maps each dimension     *)
(* 0..D-1 to its extent (Shape<D>.dims), data maps each index tuple of the *)
(* shape to an element, device names the device the tensor lives on.  An   *)
(* operation that panics yields the record [panic |-> message].            *)
(*                                                                         *)
(* The trait's required methods (no body in the trait) are modelled from   *)
(* their documentation; the provided methods are translated from their     *)
(* bodies.                                                                 *)
(***************************************************************************)
EXTENDS Integers, Sequences, FiniteSets, TLC

(***************************************************************************)
(* Bounds of the model.                                                    *)
(***************************************************************************)
\* width in bits of the backend's integer element type (IntElem<B>)
ElemBits == 5
\* input elements are -MaxVal, 0, MaxVal and the two extreme elements
MaxVal == 1
\* largest number of elements of an input tensor
MaxElems == 3
\* largest `times` argument of int_repeat
MaxTimes == 3
\* arange ranges are drawn from -MaxRange..MaxRange, steps from 0..MaxRange
MaxRange == 10

Ranks == {1, 2}
Devices == {"dev0", "dev1"}

(***************************************************************************)
(* Elements: a signed two's complement integer of ElemBits bits.           *)
(***************************************************************************)
ElemMin == -(2 ^ (ElemBits - 1))
ElemMax == (2 ^ (ElemBits - 1)) - 1
Elem == ElemMin..ElemMax

\* native wraparound of the element type
Wrap(x) == ((x - ElemMin) % (2 ^ ElemBits)) + ElemMin

\* ElementConversion::elem(): a generic number converted into the element type
elem(x) == Wrap(x)

\* integer division of the element type: the quotient truncated toward zero
TruncDiv(a, b) ==
    LET q == (IF a < 0 THEN -a ELSE a) \div (IF b < 0 THEN -b ELSE b)
    IN  IF (a < 0) = (b < 0) THEN q ELSE -q

InputVals == {-MaxVal, 0, MaxVal, ElemMin, ElemMax}

(***************************************************************************)
(* Shapes and tensors.                                                     *)
(***************************************************************************)
RECURSIVE Product(_, _)
Product(dims, S) ==
    IF S = {} THEN 1
    ELSE LET d == CHOOSE x \in S : TRUE
         IN  dims[d] * Product(dims, S \ {d})

\* Shape::num_elements
num_elements(dims) == Product(dims, DOMAIN dims)

\* the index tuples of a shape
Indices(dims) ==
    IF \E d \in DOMAIN dims : dims[d] = 0 THEN {}
    ELSE LET m == CHOOSE x \in {dims[d] : d \in DOMAIN dims} :
                      \A d \in DOMAIN dims : dims[d] <= x
         IN  {ix \in [DOMAIN dims -> 0..(m - 1)] : \A d \in DOMAIN dims : ix[d] < dims[d]}

Shapes ==
    UNION {{dims \in [0..(D - 1) -> 0..MaxElems] : num_elements(dims) <= MaxElems} : D \in Ranks}

\* the input tensors: every shape, every content over the input elements
TensorsOfShape(dims) ==
    {[dims |-> dims, data |-> f, device |-> "dev0"] : f \in [Indices(dims) -> InputVals]}

Tensors == UNION {TensorsOfShape(dims) : dims \in Shapes}

\* the rank-3 input tensors, for the operations that leave leading dimensions alone
Tensors3 ==
    UNION {TensorsOfShape(dims) :
             dims \in {e \in [0..2 -> 0..MaxElems] : num_elements(e) <= MaxElems}}

\* what a freshly allocated, unwritten element may hold
Garbage == {0, ElemMax}

\* the scalar bounds tried by int_clamp: below, at and above zero
ClampVals == {-MaxVal, 0, MaxVal}

IsPanic(t) == "panic" \in DOMAIN t
Panic(msg) == [panic |-> msg]

\* row-major position of an index tuple in the flat value sequence
RECURSIVE Offset(_, _, _)
Offset(dims, ix, d) ==
    IF d < 0 THEN 0
    ELSE ix[d] + dims[d] * (IF d = 0 THEN 0 ELSE Offset(dims, ix, d - 1))

Flat(dims, ix) == Offset(dims, ix, Cardinality(DOMAIN dims) - 1)

(***************************************************************************)
(* Required methods of the trait (the backend's primitives).               *)
(***************************************************************************)
\* int_empty: a tensor of the shape on the device; its content is unspecified,
\* `garbage` is whatever the allocation happens to hold
int_empty(shape, device, garbage) ==
    [dims |-> shape, data |-> [ix \in Indices(shape) |-> garbage], device |-> device]

int_shape(tensor) == tensor.dims

int_device(tensor) == tensor.device

\* int_zeros: a tensor of the shape on the device, every element 0
int_zeros(shape, device) ==
    [dims |-> shape, data |-> [ix \in Indices(shape) |-> 0], device |-> device]

\* int_from_data: the tensor holding the flat (row-major) values of the data
int_from_data(data, device) ==
    [dims |-> data.shape,
     data |-> [ix \in Indices(data.shape) |-> data.value[Flat(data.shape, ix) + 1]],
     device |-> device]

\* int_reshape: the same elements in row-major order under the new shape
int_reshape(tensor, shape) ==
    IF IsPanic(tensor) THEN tensor
    ELSE IF num_elements(shape) # num_elements(tensor.dims) THEN Panic("ShapeMismatch")
    ELSE [dims |-> shape,
          data |-> [ix \in Indices(shape) |->
                      LET src == CHOOSE jx \in Indices(tensor.dims) :
                                     Flat(tensor.dims, jx) = Flat(shape, ix)
                      IN  tensor.data[src]],
          device |-> tensor.device]

\* int_slice_assign: `tensor` with the region given by one half-open range per
\* dimension replaced by `value`
int_slice_assign(tensor, indices, value) ==
    IF IsPanic(tensor) THEN tensor
    ELSE IF IsPanic(value) THEN value
    ELSE IF \E d \in DOMAIN indices :
                \/ indices[d].start > indices[d].end
                \/ indices[d].end > tensor.dims[d]
                \/ value.dims[d] # indices[d].end - indices[d].start
         THEN Panic("OutOfRange")
    ELSE [tensor EXCEPT !.data =
            [ix \in Indices(tensor.dims) |->
                IF \A d \in DOMAIN indices : indices[d].start <= ix[d] /\ ix[d] < indices[d].end
                THEN value.data[[d \in DOMAIN ix |->
                                   IF d \in DOMAIN indices THEN ix[d] - indices[d].start ELSE ix[d]]]
                ELSE tensor.data[ix]]]

\* int_slice: the sub-tensor given by one half-open range per dimension
int_slice(tensor, indices) ==
    IF IsPanic(tensor) THEN tensor
    ELSE IF \E d \in DOMAIN indices :
                indices[d].start > indices[d].end \/ indices[d].end > tensor.dims[d]
         THEN Panic("OutOfRange")
    ELSE LET dims == [d \in DOMAIN tensor.dims |->
                        IF d \in DOMAIN indices THEN indices[d].end - indices[d].start
                        ELSE tensor.dims[d]]
         IN  [dims |-> dims,
              data |-> [ix \in Indices(dims) |->
                          tensor.data[[d \in DOMAIN ix |->
                              IF d \in DOMAIN indices THEN ix[d] + indices[d].start ELSE ix[d]]]],
              device |-> tensor.device]

\* elementwise comparison with a scalar: a boolean tensor of the same shape
int_lower_elem(lhs, rhs) ==
    IF IsPanic(lhs) THEN lhs
    ELSE [lhs EXCEPT !.data = [ix \in DOMAIN lhs.data |-> lhs.data[ix] < rhs]]

int_greater_elem(lhs, rhs) ==
    IF IsPanic(lhs) THEN lhs
    ELSE [lhs EXCEPT !.data = [ix \in DOMAIN lhs.data |-> lhs.data[ix] > rhs]]

\* int_mask_fill: `value` where the mask is true, the tensor's element elsewhere
int_mask_fill(tensor, mask, value) ==
    IF IsPanic(tensor) THEN tensor
    ELSE IF IsPanic(mask) THEN mask
    ELSE IF mask.dims # tensor.dims THEN Panic("ShapeMismatch")
    ELSE [tensor EXCEPT !.data =
            [ix \in DOMAIN tensor.data |-> IF mask.data[ix] THEN value ELSE tensor.data[ix]]]

\* elementwise arithmetic with a scalar, in the element type
int_add_scalar(lhs, rhs) ==
    IF IsPanic(lhs) THEN lhs
    ELSE [lhs EXCEPT !.data = [ix \in DOMAIN lhs.data |-> Wrap(lhs.data[ix] + rhs)]]

int_mul_scalar(lhs, rhs) ==
    IF IsPanic(lhs) THEN lhs
    ELSE [lhs EXCEPT !.data = [ix \in DOMAIN lhs.data |-> Wrap(lhs.data[ix] * rhs)]]

int_div_scalar(lhs, rhs) ==
    IF IsPanic(lhs) THEN lhs
    ELSE IF rhs = 0 THEN Panic("division by zero")
    ELSE [lhs EXCEPT !.data = [ix \in DOMAIN lhs.data |-> Wrap(TruncDiv(lhs.data[ix], rhs))]]

\* the sum, in the element type, of f over the finite set S
RECURSIVE SumOver(_, _)
SumOver(f, S) ==
    IF S = {} THEN 0
    ELSE LET x == CHOOSE y \in S : TRUE
         IN  Wrap(f[x] + SumOver(f, S \ {x}))

\* the shape with dimension dim collapsed to extent 1
Collapsed(dims, dim) == [dims EXCEPT ![dim] = 1]

\* the index tuples of the tensor that agree with ix outside dimension dim
Along(tensor, ix, dim) ==
    {jx \in Indices(tensor.dims) : \A d \in DOMAIN jx : d # dim => jx[d] = ix[d]}

\* int_sum: the sum of all elements, a rank-1 tensor of one element
int_sum(tensor) ==
    IF IsPanic(tensor) THEN tensor
    ELSE [dims |-> [d \in {0} |-> 1],
          data |-> [ix \in Indices([d \in {0} |-> 1]) |->
                      SumOver(tensor.data, DOMAIN tensor.data)],
          device |-> tensor.device]

\* int_sum_dim: the sums along dim; dim collapses to extent 1
int_sum_dim(tensor, dim) ==
    IF IsPanic(tensor) THEN tensor
    ELSE IF dim \notin DOMAIN tensor.dims THEN Panic("OutOfRange")
    ELSE [dims |-> Collapsed(tensor.dims, dim),
          data |-> [ix \in Indices(Collapsed(tensor.dims, dim)) |->
                      SumOver(tensor.data, Along(tensor, ix, dim))],
          device |-> tensor.device]

\* int_mean_dim without the division
int_mean_dim_no_division(tensor, dim) == int_sum_dim(tensor, dim)

\* int_mean_dim: the mean along dim: the sum along dim divided, in the element
\* type, by the extent of dim
int_mean_dim(tensor, dim) ==
    IF IsPanic(tensor) THEN tensor
    ELSE IF dim \notin DOMAIN tensor.dims THEN Panic("OutOfRange")
    ELSE int_div_scalar(int_sum_dim(tensor, dim), elem(tensor.dims[dim]))

\* int_argmax / int_argmin: the position along dim of the (first) largest /
\* smallest element; dim collapses to extent 1
int_argmax(tensor, dim) ==
    IF IsPanic(tensor) THEN tensor
    ELSE IF dim \notin DOMAIN tensor.dims THEN Panic("OutOfRange")
    ELSE IF tensor.dims[dim] = 0 THEN Panic("empty reduction")
    ELSE [dims |-> Collapsed(tensor.dims, dim),
          data |-> [ix \in Indices(Collapsed(tensor.dims, dim)) |->
                      LET best == CHOOSE jx \in Along(tensor, ix, dim) :
                              \A kx \in Along(tensor, ix, dim) :
                                  \/ tensor.data[kx] < tensor.data[jx]
                                  \/ tensor.data[kx] = tensor.data[jx] /\ jx[dim] <= kx[dim]
                      IN  best[dim]],
          device |-> tensor.device]

int_argmin(tensor, dim) ==
    IF IsPanic(tensor) THEN tensor
    ELSE IF dim \notin DOMAIN tensor.dims THEN Panic("OutOfRange")
    ELSE IF tensor.dims[dim] = 0 THEN Panic("empty reduction")
    ELSE [dims |-> Collapsed(tensor.dims, dim),
          data |-> [ix \in Indices(Collapsed(tensor.dims, dim)) |->
                      LET best == CHOOSE jx \in Along(tensor, ix, dim) :
                              \A kx \in Along(tensor, ix, dim) :
                                  \/ tensor.data[kx] > tensor.data[jx]
                                  \/ tensor.data[kx] = tensor.data[jx] /\ jx[dim] <= kx[dim]
                      IN  best[dim]],
          device |-> tensor.device]

\* int_gather: for each position of the index tensor, the element of the tensor
\* at that position with its coordinate on dim replaced by the index found
\* there; the two shapes match on every dimension but dim
int_gather(dim, tensor, indices) ==
    IF IsPanic(tensor) THEN tensor
    ELSE IF IsPanic(indices) THEN indices
    ELSE IF dim \notin DOMAIN tensor.dims THEN Panic("OutOfRange")
    ELSE IF \/ DOMAIN indices.dims # DOMAIN tensor.dims
            \/ \E d \in DOMAIN tensor.dims : d # dim /\ indices.dims[d] # tensor.dims[d]
         THEN Panic("ShapeMismatch")
    ELSE IF \E ix \in DOMAIN indices.data :
                indices.data[ix] < 0 \/ indices.data[ix] >= tensor.dims[dim]
         THEN Panic("OutOfRange")
    ELSE [dims |-> indices.dims,
          data |-> [ix \in DOMAIN indices.data |->
                      tensor.data[[ix EXCEPT ![dim] = indices.data[ix]]]],
          device |-> tensor.device]

\* int_swap_dims: the tensor with two dimensions exchanged
int_swap_dims(tensor, dim1, dim2) ==
    IF IsPanic(tensor) THEN tensor
    ELSE IF dim1 \notin DOMAIN tensor.dims \/ dim2 \notin DOMAIN tensor.dims
         THEN Panic("OutOfRange")
    ELSE LET sw(f) == [d \in DOMAIN f |->
                          IF d = dim1 THEN f[dim2] ELSE IF d = dim2 THEN f[dim1] ELSE f[d]]
         IN  [dims |-> sw(tensor.dims),
              data |-> [ix \in Indices(sw(tensor.dims)) |-> tensor.data[sw(ix)]],
              device |-> tensor.device]

(***************************************************************************)
(* Provided methods of the trait, from their bodies.                       *)
(***************************************************************************)
int_clamp_min(tensor, min) ==
    LET mask == int_lower_elem(tensor, min)
    IN  int_mask_fill(tensor, mask, min)

int_clamp_max(tensor, max) ==
    LET mask == int_greater_elem(tensor, max)
    IN  int_mask_fill(tensor, mask, max)

\* int_clamp with its two steps in the other order
int_clamp_min_first(tensor, min, max) == int_clamp_max(int_clamp_min(tensor, min), max)

\* int_clamp without its max-clamp step
int_clamp_min_only(tensor, min, max) == int_clamp_min(tensor, min)

int_clamp(tensor, min, max) == int_clamp_min(int_clamp_max(tensor, max), min)

\* int_neg with the scalar -1 converted as if the element type were unsigned
int_neg_saturated(tensor) == int_mul_scalar(tensor, 0)

int_neg(tensor) == int_mul_scalar(tensor, elem(-1))

\* int_full multiplying the zeros by the fill value
int_full_mul(shape, fill_value, device) == int_mul_scalar(int_zeros(shape, device), fill_value)

int_full(shape, fill_value, device) == int_add_scalar(int_zeros(shape, device), fill_value)

\* int_mean counting the elements after the reduction
int_mean_after_reduction(tensor) ==
    LET sum == int_sum(tensor)
        num_elems == num_elements(int_shape(sum))
    IN  int_div_scalar(sum, elem(num_elems))

int_mean(tensor) ==
    LET num_elems == num_elements(int_shape(tensor))
    IN  int_div_scalar(int_sum(tensor), elem(num_elems))

\* the rank (the const generic D) of the tensor
D(tensor) == Cardinality(DOMAIN tensor.dims)

int_max_dim(tensor, dim) ==
    LET index == int_argmax(tensor, dim)
    IN  int_gather(D(tensor) - 1, tensor, index)

\* int_max_dim_with_indices gathering along dim
int_max_dim_with_indices_along_dim(tensor, dim) ==
    LET index == int_argmax(tensor, dim)
        values == int_gather(dim, tensor, index)
    IN  <<values, index>>

int_max_dim_with_indices(tensor, dim) ==
    LET index == int_argmax(tensor, dim)
        values == int_gather(D(tensor) - 1, tensor, index)
    IN  <<values, index>>

\* int_min_dim gathering at the positions of the largest elements
int_min_dim_as_max(tensor, dim) ==
    LET index == int_argmax(tensor, dim)
    IN  int_gather(D(tensor) - 1, tensor, index)

int_min_dim(tensor, dim) ==
    LET index == int_argmin(tensor, dim)
    IN  int_gather(D(tensor) - 1, tensor, index)

int_min_dim_with_indices(tensor, dim) ==
    LET indices == int_argmin(tensor, dim)
        values == int_gather(D(tensor) - 1, tensor, indices)
    IN  <<values, indices>>

\* int_max delegating to the minimum along dimension 0
int_max_as_min(tensor) ==
    LET shape == int_shape(tensor)
        flat == int_reshape(tensor, [d \in {0} |-> num_elements(shape)])
    IN  int_min_dim(flat, 0)

int_max(tensor) ==
    LET shape == int_shape(tensor)
        flat == int_reshape(tensor, [d \in {0} |-> num_elements(shape)])
    IN  int_max_dim(flat, 0)

int_min(tensor) ==
    LET shape == int_shape(tensor)
        flat == int_reshape(tensor, [d \in {0} |-> num_elements(shape)])
    IN  int_min_dim(flat, 0)

\* int_transpose swapping the first and the last dimension
int_transpose_first_last(tensor) == int_swap_dims(tensor, 0, D(tensor) - 1)

int_transpose(tensor) == int_swap_dims(tensor, D(tensor) - 2, D(tensor) - 1)

\* step_by over the closed range start..=end
RECURSIVE step_by_inclusive(_, _, _)
step_by_inclusive(start, end, step) ==
    IF start > end THEN <<>>
    ELSE <<start>> \o step_by_inclusive(start + step, end, step)

\* Range<i64>::step_by(step): start, start + step, ... while below end
RECURSIVE step_by(_, _, _)
step_by(start, end, step) ==
    IF start >= end THEN <<>>
    ELSE <<start>> \o step_by(start + step, end, step)

\* int_arange_step taking a step of 0 for a step of 1
int_arange_step_zero_as_one(range, step, device) ==
    LET st == IF step = 0 THEN 1 ELSE step
        value == [k \in DOMAIN step_by(range.start, range.end, st) |->
                     elem(step_by(range.start, range.end, st)[k])]
        shape == [d \in {0} |-> Len(value)]
        data == [value |-> value, shape |-> shape]
    IN  int_from_data(data, device)

\* Iterator::step_by panics when the step is 0, before any value is produced
int_arange_step(range, step, device) ==
    IF step = 0 THEN Panic("assertion failed: step != 0")
    ELSE LET value == [k \in DOMAIN step_by(range.start, range.end, step) |->
                          elem(step_by(range.start, range.end, step)[k])]
             shape == [d \in {0} |-> Len(value)]
             data == [value |-> value, shape |-> shape]
         IN  int_from_data(data, device)

int_arange(range, device) == int_arange_step(range, 1, device)

(***************************************************************************)
(* The state: one call of an operation of the contract at a time.          *)
(*   pc      "idle", "repeat" (inside int_repeat's loop), "done" (the call *)
(*           returned `result`) or "panicked" (the call aborted)           *)
(*   op      the operation called, args its arguments                      *)
(*   calls   the backend primitives the call has invoked so far, in order  *)
(*   shape, indices_select_all, tensor_output, i: int_repeat's locals      *)
(***************************************************************************)
VARIABLES pc, op, args, result, calls, shape, indices_select_all, tensor_output, i

vars == <<pc, op, args, result, calls, shape, indices_select_all, tensor_output, i>>

locals == <<shape, indices_select_all, tensor_output, i>>

None == [none |-> TRUE]

\* the dimension arguments tried: every dimension of the largest rank
DimArgs == 0..((CHOOSE r \in Ranks : \A q \in Ranks : q <= r) - 1)

Call(fn) == [fn |-> fn]

Init ==
    /\ pc = "idle"
    /\ op = "none"
    /\ args = None
    /\ result = None
    /\ calls = <<>>
    /\ shape = None
    /\ indices_select_all = None
    /\ tensor_output = None
    /\ i = 0

\* a call of a loop-free provided method: it returns r or panics with r
Returns(o, a, r, log) ==
    /\ op' = o
    /\ args' = a
    /\ result' = r
    /\ calls' = log
    /\ pc' = IF IsPanic(r) THEN "panicked" ELSE "done"
    /\ UNCHANGED locals

(***************************************************************************)
(* int_repeat: the entry (shape check, allocation of the output), one      *)
(* action per iteration of the loop, and the return.                       *)
(***************************************************************************)
\* int_repeat's entry without the check of the extent on dim
repeat_entry_unchecked(tensor, dim, times, garbage) ==
    /\ op' = "int_repeat"
    /\ args' = [tensor |-> tensor, dim |-> dim, times |-> times]
    /\ IF dim \notin DOMAIN int_shape(tensor)
       THEN /\ pc' = "panicked"
            /\ result' = Panic("index out of bounds")
            /\ calls' = <<Call("int_shape")>>
            /\ UNCHANGED locals
       ELSE /\ shape' = [int_shape(tensor) EXCEPT ![dim] = times]
            /\ indices_select_all' =
                   [d \in DOMAIN shape' |-> [start |-> 0, end |-> shape'[d]]]
            /\ tensor_output' = int_empty(shape', int_device(tensor), garbage)
            /\ calls' = <<Call("int_shape"), Call("int_device"),
                          [fn |-> "int_empty", shape |-> shape', device |-> int_device(tensor)]>>
            /\ i' = 0
            /\ pc' = "repeat"
            /\ result' = None

repeat_entry(tensor, dim, times, garbage) ==
    /\ op' = "int_repeat"
    /\ args' = [tensor |-> tensor, dim |-> dim, times |-> times]
    /\ IF dim \notin DOMAIN int_shape(tensor)
       THEN /\ pc' = "panicked"
            /\ result' = Panic("index out of bounds")
            /\ calls' = <<Call("int_shape")>>
            /\ UNCHANGED locals
       ELSE IF int_shape(tensor)[dim] # 1
       THEN /\ pc' = "panicked"
            /\ result' = Panic("Can only repeat dimension with dim=1")
            /\ calls' = <<Call("int_shape")>>
            /\ UNCHANGED locals
       ELSE /\ shape' = [int_shape(tensor) EXCEPT ![dim] = times]
            /\ indices_select_all' =
                   [d \in DOMAIN shape' |-> [start |-> 0, end |-> shape'[d]]]
            /\ tensor_output' = int_empty(shape', int_device(tensor), garbage)
            /\ calls' = <<Call("int_shape"), Call("int_device"),
                          [fn |-> "int_empty", shape |-> shape', device |-> int_device(tensor)]>>
            /\ i' = 0
            /\ pc' = "repeat"
            /\ result' = None

\* int_repeat's iteration writing every time into the first slice
repeat_loop_first_slice ==
    /\ pc = "repeat"
    /\ i < args.times
    /\ LET indices == [indices_select_all EXCEPT ![args.dim] = [start |-> 0, end |-> 1]]
           out == int_slice_assign(tensor_output, indices, args.tensor)
       IN  /\ calls' = Append(calls, [fn |-> "int_slice_assign", indices |-> indices,
                                      value |-> args.tensor])
           /\ IF IsPanic(out)
              THEN /\ pc' = "panicked"
                   /\ result' = out
                   /\ UNCHANGED <<tensor_output, i>>
              ELSE /\ tensor_output' = out
                   /\ i' = i + 1
                   /\ UNCHANGED <<pc, result>>
    /\ UNCHANGED <<op, args, shape, indices_select_all>>

repeat_loop ==
    /\ pc = "repeat"
    /\ i < args.times
    /\ LET indices == [indices_select_all EXCEPT ![args.dim] = [start |-> i, end |-> i + 1]]
           out == int_slice_assign(tensor_output, indices, args.tensor)
       IN  /\ calls' = Append(calls, [fn |-> "int_slice_assign", indices |-> indices,
                                      value |-> args.tensor])
           /\ IF IsPanic(out)
              THEN /\ pc' = "panicked"
                   /\ result' = out
                   /\ UNCHANGED <<tensor_output, i>>
              ELSE /\ tensor_output' = out
                   /\ i' = i + 1
                   /\ UNCHANGED <<pc, result>>
    /\ UNCHANGED <<op, args, shape, indices_select_all>>

\* int_repeat returning before the last iteration of its loop
repeat_return_early ==
    /\ pc = "repeat"
    /\ i >= args.times - 1
    /\ result' = tensor_output
    /\ pc' = "done"
    /\ UNCHANGED <<op, args, calls, locals>>

repeat_return ==
    /\ pc = "repeat"
    /\ i >= args.times
    /\ result' = tensor_output
    /\ pc' = "done"
    /\ UNCHANGED <<op, args, calls, locals>>

Call_int_repeat ==
    /\ pc = "idle"
    /\ \E tensor \in Tensors, device \in Devices, dim \in DimArgs, times \in 0..MaxTimes,
          garbage \in Garbage :
        repeat_entry([tensor EXCEPT !.device = device], dim, times, garbage)

(***************************************************************************)
(* The loop-free provided methods.                                         *)
(***************************************************************************)
Call_int_clamp ==
    /\ pc = "idle"
    /\ \E tensor \in Tensors, min \in ClampVals, max \in ClampVals :
        Returns("int_clamp", [tensor |-> tensor, min |-> min, max |-> max],
                int_clamp(tensor, min, max),
                <<Call("int_greater_elem"), Call("int_mask_fill"),
                  Call("int_lower_elem"), Call("int_mask_fill")>>)

Call_int_neg ==
    /\ pc = "idle"
    /\ \E tensor \in Tensors :
        Returns("int_neg", [tensor |-> tensor], int_neg(tensor), <<Call("int_mul_scalar")>>)

Call_int_full ==
    /\ pc = "idle"
    /\ \E dims \in Shapes, fill_value \in InputVals, device \in Devices :
        Returns("int_full", [shape |-> dims, fill_value |-> fill_value, device |-> device],
                int_full(dims, fill_value, device),
                <<Call("int_zeros"), Call("int_add_scalar")>>)

Call_int_mean ==
    /\ pc = "idle"
    /\ \E tensor \in Tensors :
        Returns("int_mean", [tensor |-> tensor], int_mean(tensor),
                <<Call("int_shape"), Call("int_sum"), Call("int_div_scalar")>>)

Call_int_mean_dim ==
    /\ pc = "idle"
    /\ \E tensor \in Tensors, dim \in DimArgs :
        /\ dim \in DOMAIN tensor.dims
        /\ Returns("int_mean_dim", [tensor |-> tensor, dim |-> dim],
                   int_mean_dim(tensor, dim), <<Call("int_mean_dim")>>)

Call_int_max ==
    /\ pc = "idle"
    /\ \E tensor \in Tensors :
        Returns("int_max", [tensor |-> tensor], int_max(tensor),
                <<Call("int_shape"), Call("int_reshape"), Call("int_argmax"),
                  Call("int_gather")>>)

Call_int_max_dim ==
    /\ pc = "idle"
    /\ \E tensor \in Tensors, dim \in DimArgs :
        /\ dim \in DOMAIN tensor.dims
        /\ Returns("int_max_dim", [tensor |-> tensor, dim |-> dim],
                   int_max_dim(tensor, dim), <<Call("int_argmax"), Call("int_gather")>>)

Call_int_min_dim ==
    /\ pc = "idle"
    /\ \E tensor \in Tensors, dim \in DimArgs :
        /\ dim \in DOMAIN tensor.dims
        /\ Returns("int_min_dim", [tensor |-> tensor, dim |-> dim],
                   int_min_dim(tensor, dim), <<Call("int_argmin"), Call("int_gather")>>)

\* A panic of int_argmax or int_gather unwinds through the method: no pair is
\* returned.
Call_int_max_dim_with_indices ==
    /\ pc = "idle"
    /\ \E tensor \in Tensors, dim \in DimArgs :
        /\ dim \in DOMAIN tensor.dims
        /\ LET r == int_max_dim_with_indices(tensor, dim)
           IN  /\ op' = "int_max_dim_with_indices"
               /\ args' = [tensor |-> tensor, dim |-> dim]
               /\ calls' = IF IsPanic(r[2]) THEN <<Call("int_argmax")>>
                            ELSE <<Call("int_argmax"), Call("int_gather")>>
               /\ result' = IF IsPanic(r[1]) THEN r[1] ELSE r
               /\ pc' = IF IsPanic(r[1]) THEN "panicked" ELSE "done"
               /\ UNCHANGED locals

Call_int_min_dim_with_indices ==
    /\ pc = "idle"
    /\ \E tensor \in Tensors, dim \in DimArgs :
        /\ dim \in DOMAIN tensor.dims
        /\ LET r == int_min_dim_with_indices(tensor, dim)
           IN  /\ op' = "int_min_dim_with_indices"
               /\ args' = [tensor |-> tensor, dim |-> dim]
               /\ calls' = IF IsPanic(r[2]) THEN <<Call("int_argmin")>>
                            ELSE <<Call("int_argmin"), Call("int_gather")>>
               /\ result' = IF IsPanic(r[1]) THEN r[1] ELSE r
               /\ pc' = IF IsPanic(r[1]) THEN "panicked" ELSE "done"
               /\ UNCHANGED locals

Call_int_transpose ==
    /\ pc = "idle"
    /\ \E tensor \in Tensors \cup Tensors3 :
        Returns("int_transpose", [tensor |-> tensor], int_transpose(tensor),
                <<Call("int_swap_dims")>>)

Call_int_arange_step ==
    /\ pc = "idle"
    /\ \E start \in (-MaxRange)..MaxRange, end \in (-MaxRange)..MaxRange,
       step \in 0..MaxRange, device \in Devices :
        LET r == int_arange_step([start |-> start, end |-> end], step, device)
        IN  Returns("int_arange_step",
                    [range |-> [start |-> start, end |-> end], step |-> step, device |-> device],
                    r, IF IsPanic(r) THEN <<>> ELSE <<Call("int_from_data")>>)

\* the caller takes the result (or the panic) and may call again
Return ==
    /\ pc \in {"done", "panicked"}
    /\ pc' = "idle"
    /\ op' = "none"
    /\ args' = None
    /\ result' = None
    /\ calls' = <<>>
    /\ shape' = None
    /\ indices_select_all' = None
    /\ tensor_output' = None
    /\ i' = 0

Next ==
    \/ Call_int_repeat
    \/ repeat_loop
    \/ repeat_return
    \/ Call_int_clamp
    \/ Call_int_neg
    \/ Call_int_full
    \/ Call_int_mean
    \/ Call_int_mean_dim
    \/ Call_int_max
    \/ Call_int_max_dim
    \/ Call_int_min_dim
    \/ Call_int_max_dim_with_indices
    \/ Call_int_min_dim_with_indices
    \/ Call_int_transpose
    \/ Call_int_arange_step
    \/ Return

Spec == Init /\ [][Next]_vars

(***************************************************************************)
(* Properties.                                                             *)
(***************************************************************************)
Finished == pc \in {"done", "panicked"}

\* the largest element of the tensor along dim at the position ix of the result
MaxAlong(tensor, ix, dim) ==
    CHOOSE m \in {tensor.data[jx] : jx \in Along(tensor, ix, dim)} :
        \A jx \in Along(tensor, ix, dim) : tensor.data[jx] <= m

\* C1: for every tensor with a non-zero extent on dim and every dim < D,
\* int_max_dim(t, dim) returns the tensor with dim collapsed to extent 1 that
\* holds the maximum of t along dim, which is the gather of t along dim at the
\* indices int_argmax(t, dim).
C1_MaxDimEveryDim ==
    (Finished /\ op = "int_max_dim" /\ args.tensor.dims[args.dim] > 0) =>
        /\ pc = "done"
        /\ result.dims = Collapsed(args.tensor.dims, args.dim)
        /\ \A ix \in Indices(Collapsed(args.tensor.dims, args.dim)) :
              result.data[ix] = MaxAlong(args.tensor, ix, args.dim)
        /\ result = int_gather(args.dim, args.tensor, int_argmax(args.tensor, args.dim))

\* the ranges selecting slice k of the tensor along dim, whole on the other dimensions
SliceAt(tensor, dim, k) ==
    [d \in DOMAIN tensor.dims |->
        IF d = dim THEN [start |-> k, end |-> k + 1] ELSE [start |-> 0, end |-> tensor.dims[d]]]

\* C2: int_repeat(t, dim, n) on a tensor whose extent on dim is 1 returns a
\* tensor of t's shape except extent n on dim, and each of its n slices
\* k..k+1 along dim equals t: no element of the empty output stays unwritten.
C2_RepeatSlicesEqualSource ==
    (Finished /\ op = "int_repeat" /\ args.dim \in DOMAIN args.tensor.dims
              /\ args.tensor.dims[args.dim] = 1) =>
        /\ pc = "done"
        /\ result.dims = [args.tensor.dims EXCEPT ![args.dim] = args.times]
        /\ \A k \in 0..(args.times - 1) :
              int_slice(result, SliceAt(result, args.dim, k)) = args.tensor

C2_Witness ==
    /\ pc = "done"
    /\ op = "int_repeat"
    /\ args.times >= 2
    /\ D(args.tensor) = 2
    /\ num_elements(args.tensor.dims) >= 2
    /\ \E ix \in DOMAIN args.tensor.data : args.tensor.data[ix] \notin Garbage

\* C3: int_repeat on a tensor whose extent on dim is not 1 panics for every
\* n, before any output exists: no int_empty and no int_slice_assign is
\* called, the loop is never entered and no tensor is returned.
C3_RepeatNonSingletonAborts ==
    (op = "int_repeat" /\ args.dim \in DOMAIN args.tensor.dims
                      /\ args.tensor.dims[args.dim] # 1) =>
        /\ pc = "panicked"
        /\ IsPanic(result)
        /\ \A k \in DOMAIN calls : calls[k].fn \notin {"int_empty", "int_slice_assign"}
        /\ tensor_output = None

C3_Witness ==
    /\ pc = "panicked"
    /\ op = "int_repeat"
    /\ args.dim \in DOMAIN args.tensor.dims
    /\ args.tensor.dims[args.dim] = 2
    /\ args.times >= 1

ClampHolds ==
    /\ pc = "done"
    /\ result.dims = args.tensor.dims
    /\ result.device = args.tensor.device
    /\ \A ix \in Indices(args.tensor.dims) :
          /\ args.min <= result.data[ix]
          /\ result.data[ix] <= args.max
          /\ (args.min <= args.tensor.data[ix] /\ args.tensor.data[ix] <= args.max)
                => result.data[ix] = args.tensor.data[ix]

\* C4 as stated: for every tensor and every min and max, int_clamp(t, min, max)
\* has t's shape, every element in [min, max], and the elements of t already
\* in [min, max] unchanged.
C4_ClampAnyBounds == (Finished /\ op = "int_clamp") => ClampHolds

\* C4 amended: the same for every min <= max.
C4_ClampOrderedBounds == (Finished /\ op = "int_clamp" /\ args.min <= args.max) => ClampHolds

C4_Witness ==
    /\ pc = "done"
    /\ op = "int_clamp"
    /\ args.min < args.max
    /\ \E ix \in DOMAIN args.tensor.data : args.tensor.data[ix] < args.min
    /\ \E ix \in DOMAIN args.tensor.data : args.tensor.data[ix] > args.max
    /\ \E ix \in DOMAIN args.tensor.data :
          args.min <= args.tensor.data[ix] /\ args.tensor.data[ix] <= args.max

\* C5: for every non-empty tensor of any rank, int_max(t) is a rank-1 tensor of
\* one element, the largest element of t.
C5_MaxIsLargest ==
    (Finished /\ op = "int_max" /\ num_elements(args.tensor.dims) > 0) =>
        /\ pc = "done"
        /\ DOMAIN result.dims = {0}
        /\ result.dims[0] = 1
        /\ \E ix \in DOMAIN args.tensor.data : args.tensor.data[ix] = result.data[[d \in {0} |-> 0]]
        /\ \A ix \in DOMAIN args.tensor.data : args.tensor.data[ix] <= result.data[[d \in {0} |-> 0]]

C5_Witness ==
    /\ pc = "done"
    /\ op = "int_max"
    /\ D(args.tensor) = 2
    /\ num_elements(args.tensor.dims) >= 3
    /\ \E ix \in DOMAIN args.tensor.data, jx \in DOMAIN args.tensor.data :
          /\ Flat(args.tensor.dims, ix) < Flat(args.tensor.dims, jx)
          /\ args.tensor.data[ix] < args.tensor.data[jx]
          /\ result.data[[d \in {0} |-> 0]] = args.tensor.data[jx]

\* the only index tuple of a rank-1 tensor of one element
Only == [d \in {0} |-> 0]

\* C6: for every range a..b (inside the element type) and every step s >= 1,
\* int_arange_step(a..b, s, device) returns a rank-1 tensor on the device whose
\* k-th element is a + k*s for exactly the k >= 0 with a + k*s < b, in
\* increasing order; when b <= a it has length zero and does not fail.
C6_ArangeStepValues ==
    (Finished /\ op = "int_arange_step" /\ args.step >= 1) =>
        /\ pc = "done"
        /\ DOMAIN result.dims = {0}
        /\ result.device = args.device
        /\ \A k \in 0..(result.dims[0] - 1) :
              /\ result.data[[d \in {0} |-> k]] = args.range.start + k * args.step
              /\ result.data[[d \in {0} |-> k]] < args.range.end
        /\ args.range.start + result.dims[0] * args.step >= args.range.end
        /\ (args.range.end <= args.range.start) => result.dims[0] = 0

\* int_arange_step(0..10, 3, device) has returned [0, 3, 6, 9]
C6_Witness ==
    /\ pc = "done"
    /\ op = "int_arange_step"
    /\ args.range = [start |-> 0, end |-> 10]
    /\ args.step = 3
    /\ result.dims[0] = 4
    /\ \A k \in 0..3 : result.data[[d \in {0} |-> k]] = 3 * k

\* C7: for the signed, wrapping element type, int_neg(t) holds the negation
\* of every element of t (its product with -1 in the element type) and
\* int_neg(int_neg(t)) equals t.
C7_DoubleNegation ==
    (Finished /\ op = "int_neg") =>
        /\ pc = "done"
        /\ result.dims = args.tensor.dims
        /\ \A ix \in DOMAIN args.tensor.data :
              /\ result.data[ix] \in Elem
              /\ (result.data[ix] + args.tensor.data[ix]) % (2 ^ ElemBits) = 0
        /\ int_neg(result) = args.tensor

C7_Witness ==
    /\ pc = "done"
    /\ op = "int_neg"
    /\ \E ix \in DOMAIN args.tensor.data : args.tensor.data[ix] = ElemMin
    /\ \E ix \in DOMAIN args.tensor.data : args.tensor.data[ix] > 0 /\ result.data[ix] < 0

C9_MeanIsSumOverCount ==
    (Finished /\ op = "int_mean" /\ num_elements(args.tensor.dims) > 0
              /\ num_elements(args.tensor.dims) <= ElemMax) =>
        LET sum == int_sum(args.tensor).data[Only]
            n == Cardinality(DOMAIN args.tensor.data)
        IN  /\ pc = "done"
            /\ DOMAIN result.dims = {0}
            /\ result.dims[0] = 1
            /\ IF sum >= 0
               THEN n * result.data[Only] <= sum /\ sum < n * (result.data[Only] + 1)
               ELSE n * (result.data[Only] - 1) < sum /\ sum <= n * result.data[Only]

C9_Witness ==
    /\ pc = "done"
    /\ op = "int_mean"
    /\ D(args.tensor) = 2
    /\ num_elements(args.tensor.dims) >= 3
    /\ int_sum(args.tensor).data[Only] < 0
    /\ int_sum(args.tensor).data[Only] % num_elements(args.tensor.dims) # 0
    /\ result.data[Only] # 0

\* C10: for every shape, fill value v and device, int_full(shape, v, device)
\* returns a tensor of that shape on that device whose every element is v.
C10_FullHoldsFillValue ==
    (Finished /\ op = "int_full") =>
        /\ pc = "done"
        /\ result.dims = args.shape
        /\ result.device = args.device
        /\ DOMAIN result.data = Indices(args.shape)
        /\ \A ix \in Indices(args.shape) : result.data[ix] = args.fill_value

C10_Witness ==
    /\ pc = "done"
    /\ op = "int_full"
    /\ D(result) = 2
    /\ num_elements(args.shape) >= 2
    /\ args.fill_value \notin {0, 1}
    /\ args.device # "dev0"

\* the index tuple or shape with its last two entries exchanged
SwapLastTwo(f) ==
    LET n == Cardinality(DOMAIN f)
    IN  [d \in DOMAIN f |-> IF d = n - 2 THEN f[n - 1] ELSE IF d = n - 1 THEN f[n - 2] ELSE f[d]]

\* C11: for every tensor of rank D >= 2, int_transpose(t) is
\* int_swap_dims(t, D-2, D-1): the last two extents are exchanged, the others
\* kept, the element at [.., i, j] of the result is the element at [.., j, i]
\* of t, and int_transpose(int_transpose(t)) equals t.
C11_TransposeSwapsLastTwo ==
    (Finished /\ op = "int_transpose" /\ D(args.tensor) >= 2) =>
        /\ pc = "done"
        /\ result = int_swap_dims(args.tensor, D(args.tensor) - 2, D(args.tensor) - 1)
        /\ result.dims = SwapLastTwo(args.tensor.dims)
        /\ DOMAIN result.data = Indices(SwapLastTwo(args.tensor.dims))
        /\ \A ix \in DOMAIN result.data : result.data[ix] = args.tensor.data[SwapLastTwo(ix)]
        /\ int_transpose(result) = args.tensor

C11_Witness ==
    /\ pc = "done"
    /\ op = "int_transpose"
    /\ D(args.tensor) = 3
    /\ args.tensor.dims[0] # args.tensor.dims[2]
    /\ args.tensor.dims[1] # args.tensor.dims[2]
    /\ \E ix \in DOMAIN args.tensor.data, jx \in DOMAIN args.tensor.data :
          args.tensor.data[ix] # args.tensor.data[jx]

\* the smallest element of the tensor along dim at the position ix of the result
MinAlong(tensor, ix, dim) ==
    CHOOSE m \in {tensor.data[jx] : jx \in Along(tensor, ix, dim)} :
        \A jx \in Along(tensor, ix, dim) : m <= tensor.data[jx]

\* C12: when dim is the last dimension D-1 and t has a non-zero extent on it,
\* int_min_dim(t, dim) returns the tensor with the last dimension collapsed to
\* extent 1 that holds the minimum of t along that dimension.
C12_MinDimLastDim ==
    (Finished /\ op = "int_min_dim" /\ args.dim = D(args.tensor) - 1
              /\ args.tensor.dims[args.dim] > 0) =>
        /\ pc = "done"
        /\ result.dims = Collapsed(args.tensor.dims, args.dim)
        /\ DOMAIN result.data = Indices(Collapsed(args.tensor.dims, args.dim))
        /\ \A ix \in DOMAIN result.data :
              result.data[ix] = MinAlong(args.tensor, ix, args.dim)

C12_Witness ==
    /\ pc = "done"
    /\ op = "int_min_dim"
    /\ D(args.tensor) = 2
    /\ args.dim = 1
    /\ args.tensor.dims[1] >= 3
    /\ \E ix \in DOMAIN args.tensor.data :
          /\ ix[1] > 0
          /\ \A jx \in DOMAIN args.tensor.data : jx # ix => args.tensor.data[ix] < args.tensor.data[jx]
          /\ result.data[[ix EXCEPT ![1] = 0]] = args.tensor.data[ix]

\* C13: int_clamp is the max-clamp followed by the min-clamp; for min <= max
\* the min-clamp followed by the max-clamp gives the same tensor, and for
\* min > max every element of int_clamp(t, min, max) is min.
C13_ClampOrder ==
    (Finished /\ op = "int_clamp") =>
        /\ pc = "done"
        /\ result = int_clamp_min(int_clamp_max(args.tensor, args.max), args.min)
        /\ args.min <= args.max =>
              result = int_clamp_max(int_clamp_min(args.tensor, args.min), args.max)
        /\ args.min > args.max =>
              \A ix \in Indices(args.tensor.dims) : result.data[ix] = args.min

C13_Witness ==
    /\ pc = "done"
    /\ op = "int_clamp"
    /\ args.min > args.max
    /\ num_elements(args.tensor.dims) >= 2
    /\ \E ix \in DOMAIN args.tensor.data : args.tensor.data[ix] > args.min
    /\ \E ix \in DOMAIN args.tensor.data : args.tensor.data[ix] < args.max
    /\ result # int_clamp_max(int_clamp_min(args.tensor, args.min), args.max)

\* C14: int_arange_step with step = 0 aborts for every range: no tensor is
\* returned and int_from_data is never called.
C14_ArangeStepZeroAborts ==
    (op = "int_arange_step" /\ args.step = 0) =>
        /\ pc = "panicked"
        /\ IsPanic(result)
        /\ \A k \in DOMAIN calls : calls[k].fn # "int_from_data"

C14_Witness ==
    /\ pc = "panicked"
    /\ op = "int_arange_step"
    /\ args.step = 0
    /\ args.range.start < args.range.end
    /\ calls = <<>>

\* The calls int_repeat(t, dim, n) has made once n iterations are over.
RepeatCalls(t, dim, times, n) ==
    LET expanded == [t.dims EXCEPT ![dim] = times]
    IN  <<Call("int_shape"), Call("int_device"),
          [fn |-> "int_empty", shape |-> expanded, device |-> t.device]>>
        \o [k \in 1..n |->
               [fn |-> "int_slice_assign",
                indices |-> [d \in DOMAIN t.dims |->
                                IF d = dim THEN [start |-> k - 1, end |-> k]
                                           ELSE [start |-> 0, end |-> t.dims[d]]],
                value |-> t]]

\* C15: a successful int_repeat(t, dim, n) makes exactly one int_empty, of the
\* expanded shape on t's device, followed by exactly n int_slice_assign calls
\* in ascending order, the i-th writing t into i..i+1 on dim and the full range
\* on every other dimension; with n = 0 there is no int_slice_assign and the
\* result has extent 0 on dim.
C15_RepeatCallSequence ==
    /\ (op = "int_repeat" /\ pc = "repeat") =>
           /\ i <= args.times
           /\ calls = RepeatCalls(args.tensor, args.dim, args.times, i)
    /\ (op = "int_repeat" /\ pc = "done") =>
           /\ calls = RepeatCalls(args.tensor, args.dim, args.times, args.times)
           /\ result.dims[args.dim] = args.times
           /\ result.device = args.tensor.device
           /\ args.times = 0 =>
                  /\ \A k \in DOMAIN calls : calls[k].fn # "int_slice_assign"
                  /\ num_elements(result.dims) = 0

C15_Witness ==
    /\ pc = "done"
    /\ op = "int_repeat"
    /\ args.times >= 2
    /\ args.tensor.device = "dev1"
    /\ D(args.tensor) = 2
    /\ Len(calls) = 3 + args.times
    /\ calls[Len(calls)].indices[args.dim] = [start |-> args.times - 1, end |-> args.times]

\* C16: for every tensor t and dimension dim, int_max_dim_with_indices(t, dim)
\* returns the pair (int_max_dim(t, dim), int_argmax(t, dim)) and
\* int_min_dim_with_indices(t, dim) the pair (int_min_dim(t, dim),
\* int_argmin(t, dim)); where the separate operations abort, so does the
\* with-indices form.
C16_WithIndicesIsPair ==
    /\ (Finished /\ op = "int_max_dim_with_indices") =>
           IF IsPanic(int_max_dim(args.tensor, args.dim))
           THEN pc = "panicked"
           ELSE /\ pc = "done"
                /\ result = <<int_max_dim(args.tensor, args.dim),
                              int_argmax(args.tensor, args.dim)>>
    /\ (Finished /\ op = "int_min_dim_with_indices") =>
           IF IsPanic(int_min_dim(args.tensor, args.dim))
           THEN pc = "panicked"
           ELSE /\ pc = "done"
                /\ result = <<int_min_dim(args.tensor, args.dim),
                              int_argmin(args.tensor, args.dim)>>

C16_Witness ==
    /\ pc = "done"
    /\ op = "int_max_dim_with_indices"
    /\ D(args.tensor) = 2
    /\ args.tensor.dims[args.dim] >= 2
    /\ \E ix \in DOMAIN result[2].data : result[2].data[ix] > 0
    /\ result[1] = int_max_dim(args.tensor, args.dim)
====
